---- MODULE Spec2Model ----
(***************************************************************************)
(* Model of the offline analysis engine of rga-drivers                     *)
(* (offline-analysis/offline_analysis.py, class OfflineAnalysis) and of    *)
(* the acquisition loop of its scan tasks (rgadrivers/tasks.py and         *)
(* lxedrivers/tasks.py, IsotopeAnalysis.test).                             *)
(*                                                                         *)
(* Units.  Timestamps are seconds since 2024-09-11 00:00:00.  Masses are   *)
(* integers in units of 0.1 amu.  Pressures are fixed-point numbers: one   *)
(* unit is 1e-12 torr / KernelSum, so that the Gaussian smoothing of       *)
(* whole multiples of 1e-12 torr is exact.  A float is a record            *)
(* [nan, v]: NaN is a value of its own, and comparisons follow IEEE-754    *)
(* (every ordered comparison with NaN is false, != with NaN is true).      *)
(* Elapsed times, which the code keeps in hours, are kept in seconds       *)
(* (hours * 3600), so the 24 h threshold is 24 * 3600.                     *)
(***************************************************************************)
EXTENDS Integers, Sequences, FiniteSets, TLC

VARIABLES
    directory,          \* the listing os.listdir returns, in discovery order
    masses,             \* self.masses
    times,              \* self.times
    labels,             \* self.labels
    interpolated_data,  \* self.interpolated_data: [array, rows]
    outcome,            \* how the load_data call ended ("none": not called)
    query,              \* the last call made on the object and what it returned
    gap_in,             \* arguments (ts, ps) of _handle_large_gaps
    gap_out,            \* per label_gap value, what _handle_large_gaps returned
    task                \* an IsotopeAnalysis task: where test() stands, its
                        \* task-passed flag and its files_written

vars == <<directory, masses, times, labels, interpolated_data, outcome,
          query, gap_in, gap_out, task>>

-----------------------------------------------------------------------------
(* Bounds of the model *)

MaxFiles == 3
GridLen == 5

-----------------------------------------------------------------------------
(* Floats *)

NaN == [nan |-> TRUE, v |-> 0]

F(x) == [nan |-> FALSE, v |-> x]

FLt(a, b) == ~a.nan /\ ~b.nan /\ a.v < b.v

FLe(a, b) == ~a.nan /\ ~b.nan /\ a.v <= b.v

FEq(a, b) == ~a.nan /\ ~b.nan /\ a.v = b.v

FNe(a, b) == ~FEq(a, b)

Abs(x) == IF x < 0 THEN 0 - x ELSE x

RECURSIVE SumTo(_, _)
SumTo(f, n) == IF n = 0 THEN 0 ELSE f[n] + SumTo(f, n - 1)

-----------------------------------------------------------------------------
(* Timestamps and run intervals *)

DaySeconds == 24 * 3600

\* datetime(2024, 9, day, hour, minute, second) as seconds since 2024-09-11
Datetime(day, hour, minute, second) ==
    (day - 11) * DaySeconds + hour * 3600 + minute * 60 + second

run_intervals ==
    [control_run |-> <<Datetime(11, 16, 46, 0), Datetime(16, 9, 44, 0)>>,
     xenon_run   |-> <<Datetime(16, 11, 21, 0), Datetime(26, 11, 0, 0)>>]

None == "None"

AssignRunLabelOpen(timestamp) ==
    IF run_intervals.control_run[1] < timestamp
       /\ timestamp < run_intervals.control_run[2]
    THEN "control_run"
    ELSE IF run_intervals.xenon_run[1] < timestamp
            /\ timestamp < run_intervals.xenon_run[2]
         THEN "xenon_run"
         ELSE None

\* OfflineAnalysis._assign_run_label
AssignRunLabel(timestamp) ==
    IF run_intervals.control_run[1] <= timestamp
       /\ timestamp <= run_intervals.control_run[2]
    THEN "control_run"
    ELSE IF run_intervals.xenon_run[1] <= timestamp
            /\ timestamp <= run_intervals.xenon_run[2]
         THEN "xenon_run"
         ELSE None

-----------------------------------------------------------------------------
(* File names.  A name is its '_'-separated segments before the extension: *)
(* a segment is a word, an 8-digit date (v: day of September 2024) or a    *)
(* 6-digit time (v: second of the day).                                    *)

Word == [k |-> "word", v |-> 0]

DateTok(day) == [k |-> "date", v |-> day]

TimeTok(sec) == [k |-> "time", v |-> sec]

\* utils.generate_filename with prefix 'analog_scan' at instant now
GenerateFilename(now) ==
    <<Word, Word, DateTok(now \div DaySeconds + 11), TimeTok(now % DaySeconds)>>

\* '_'.join(file.split('_')[2:]).split('.')[0] parsed with '%Y%m%d_%H%M%S':
\* exactly a date and a time must follow the second underscore
ParseTimestamp(name) ==
    LET rest == SubSeq(name, 3, Len(name)) IN
    IF Len(rest) = 2 /\ rest[1].k = "date" /\ rest[2].k = "time"
       /\ rest[1].v \in 1..30 /\ rest[2].v \in 0..(DaySeconds - 1)
    THEN [ok |-> TRUE, t |-> Datetime(rest[1].v, 0, 0, rest[2].v)]
    ELSE [ok |-> FALSE, t |-> 0]

-----------------------------------------------------------------------------
(* File content: the rows after the header line.  A row is numeric         *)
(* (mass, pressure) or does not parse as two comma-separated numbers.      *)

Row(m, p) == [num |-> TRUE, m |-> m, p |-> p]

BadRow == [num |-> FALSE, m |-> 0, p |-> 0]

\* np.loadtxt(..., delimiter=',', skiprows=1) followed by file_data[:, 0]:
\* a non-numeric row is a ValueError; fewer than two rows give a 1-D array,
\* on which the column index is an IndexError
LoadTxt(rows) ==
    IF \E i \in 1..Len(rows) : ~rows[i].num THEN "ValueError"
    ELSE IF Len(rows) < 2 THEN "IndexError"
    ELSE "ok"

-----------------------------------------------------------------------------
(* Sorting: Python's list.sort and numpy's argsort(kind='mergesort') are   *)
(* stable; insertion after the last element with a key <= the new key.     *)

\* insert index x into the sorted index sequence s: after the last index whose
\* key is <= the key of x
RECURSIVE InsertStable(_, _, _)
InsertStable(s, x, keys) ==
    IF s = <<>> THEN <<x>>
    ELSE IF keys[s[Len(s)]] <= keys[x] THEN Append(s, x)
    ELSE Append(InsertStable(SubSeq(s, 1, Len(s) - 1), x, keys), s[Len(s)])

\* the stable sorting permutation of the first n keys
RECURSIVE ArgSortTo(_, _)
ArgSortTo(keys, n) ==
    IF n = 0 THEN <<>> ELSE InsertStable(ArgSortTo(keys, n - 1), n, keys)

ArgSort(keys) == ArgSortTo(keys, Len(keys))

\* s sorted by keys (keys[i] is the key of s[i])
Permute(s, perm) == [i \in 1..Len(s) |-> s[perm[i]]]

SortBy(s, keys) == Permute(s, ArgSort(keys))

-----------------------------------------------------------------------------
(* Interpolation: interp1d(file_masses, file_pressures, bounds_error=False,*)
(* fill_value=np.nan), linear, evaluated on the target mass grid.          *)

\* index hi in 2..n of the raw segment used for x: searchsorted(x, side=left)
\* clipped to [1, n-1] (0-based), i.e. the first raw mass >= x, at least the 2nd
SegmentHi(xs, x) ==
    LET cand == {i \in 2..Len(xs) : xs[i].m >= x} IN
    CHOOSE i \in cand : \A j \in cand : i <= j

\* linear interpolation on segment (lo, hi) of the sorted raw table xs
InterpSegment(lo, hi, x) ==
    F(((hi.p - lo.p) * (x - lo.m)) \div (hi.m - lo.m) + lo.p)

InterpSortedClamped(xs, x) ==
    IF x < xs[1].m THEN F(xs[1].p)
    ELSE IF x > xs[Len(xs)].m THEN F(xs[Len(xs)].p)
    ELSE InterpSegment(xs[SegmentHi(xs, x) - 1], xs[SegmentHi(xs, x)], x)

\* the interpolant of the sorted raw table xs at x: NaN out of bounds
InterpSorted(xs, x) ==
    IF x < xs[1].m \/ x > xs[Len(xs)].m THEN NaN
    ELSE InterpSegment(xs[SegmentHi(xs, x) - 1], xs[SegmentHi(xs, x)], x)

\* interp1d sorts the raw table by mass first (assume_sorted=False)
InterpAt(raw, x) == InterpSorted(SortBy(raw, [i \in 1..Len(raw) |-> raw[i].m]), x)

Interp1d(raw, grid) == [i \in 1..Len(grid) |-> InterpAt(raw, grid[i])]

-----------------------------------------------------------------------------
(* Gaussian kernel of gaussian_filter(sigma=2): radius int(4.0 * 2 + 0.5), *)
(* weights exp(-d^2 / 8) normalised, here in fixed point (times 10^3).     *)

sigma == 2

KernelRadius == 4 * sigma

GaussWeight(d) ==
    CASE Abs(d) = 0 -> 199
      [] Abs(d) = 1 -> 176
      [] Abs(d) = 2 -> 121
      [] Abs(d) = 3 -> 65
      [] Abs(d) = 4 -> 27
      [] Abs(d) = 5 -> 9
      [] Abs(d) = 6 -> 2
      [] OTHER -> 0

KernelSum ==
    SumTo([j \in 1..(2 * KernelRadius + 1) |-> GaussWeight(j - 1 - KernelRadius)],
          2 * KernelRadius + 1)

\* n * 1e-12 torr in pressure units
Torr12(n) == n * KernelSum

-----------------------------------------------------------------------------
(* load_data *)

IsDat(file) == file.ext = "dat"

Raised(exc) == [exc |-> exc, tad |-> <<>>, app |-> <<>>]

\* lines 55-59: the triple appended to time_and_data, then the append to
\* self.interpolated_data, which an ndarray does not have
AppendScan(timestamp, interpolated_pressures, isArray) ==
    [exc |-> IF isArray THEN "AttributeError" ELSE "none",
     tad |-> <<<<timestamp, interpolated_pressures, AssignRunLabel(timestamp)>>>>,
     app |-> IF isArray THEN <<>> ELSE <<interpolated_pressures>>]

\* lines 47-59, once the file name gave a timestamp
LoadFile(timestamp, rows, grid, isArray) ==
    IF LoadTxt(rows) # "ok" THEN Raised(LoadTxt(rows))
    ELSE AppendScan(timestamp, Interp1d(rows, grid), isArray)

\* lines 42-44: strptime raises ValueError on a name that does not parse
ParsedFile(parsed, rows, grid, isArray) ==
    IF ~parsed.ok THEN Raised("ValueError")
    ELSE LoadFile(parsed.t, rows, grid, isArray)

\* one iteration of the loop over data_files (lines 41-59): the exception it
\* raises, if any, and what it appends
ProcessFile(file, grid, isArray) ==
    ParsedFile(ParseTimestamp(file.name), file.rows, grid, isArray)

Accumulate(acc, r) ==
    [exc |-> r.exc, tad |-> acc.tad \o r.tad, app |-> acc.app \o r.app]

\* the loop over data_files from file k on; acc = [exc, tad, app]
RECURSIVE LoadLoop(_, _, _, _, _)
LoadLoop(data_files, k, grid, isArray, acc) ==
    IF k > Len(data_files) \/ acc.exc # "none" THEN acc
    ELSE LoadLoop(data_files, k + 1, grid, isArray,
                  Accumulate(acc, ProcessFile(data_files[k], grid, isArray)))

SortByNone(s, keys) == s

\* time_and_data.sort(key=lambda x: x[0])
SortTimeAndData(s, keys) == SortBy(s, keys)

Column(s, c) == [i \in 1..Len(s) |-> s[i][c]]

UnpackKeepAppended(self, time_and_data) ==
    IF Len(time_and_data) = 0
    THEN [self EXCEPT !.outcome = "ValueError"]
    ELSE [self EXCEPT !.times = Column(time_and_data, 1),
                      !.interpolated_data.array = TRUE,
                      !.labels = Column(time_and_data, 3),
                      !.outcome = "returned"]

\* lines 65-68: zip(*time_and_data) unpacked into times, data and labels;
\* zip(*[]) yields nothing to unpack into three names
Unpack(self, time_and_data) ==
    IF Len(time_and_data) = 0
    THEN [self EXCEPT !.outcome = "ValueError"]
    ELSE [self EXCEPT !.times = Column(time_and_data, 1),
                      !.interpolated_data =
                          [array |-> TRUE, rows |-> Column(time_and_data, 2)],
                      !.labels = Column(time_and_data, 3),
                      !.outcome = "returned"]

\* the object after the loop ended as `loop`
AfterLoop(self, loop) ==
    IF loop.exc # "none"
    THEN [self EXCEPT !.interpolated_data.rows = @ \o loop.app,
                      !.outcome = loop.exc]
    ELSE Unpack([self EXCEPT !.interpolated_data.rows = @ \o loop.app],
                SortTimeAndData(loop.tad, Column(loop.tad, 1)))

\* load_data(target_mass_grid) on the object self = [masses, times, labels,
\* interpolated_data, outcome]: the object afterwards, outcome telling how
\* the call ended
LoadData(self, listing, target_mass_grid) ==
    AfterLoop([self EXCEPT !.masses = target_mass_grid],
              LoadLoop(SelectSeq(listing, IsDat), 1, target_mass_grid,
                       self.interpolated_data.array, Raised("none")))

\* np.arange(start, start + n * step, step) in 0.1 amu
Arange(start, n, step) == [i \in 1..n |-> start + (i - 1) * step]

-----------------------------------------------------------------------------
(* Array helpers *)

\* np.argmin of a non-empty integer array: the lowest index of the minimum
ArgMin(a) ==
    CHOOSE i \in 1..Len(a) :
        /\ \A j \in 1..Len(a) : a[i] <= a[j]
        /\ \A j \in 1..(i - 1) : a[j] > a[i]

\* the indices of a set, ascending
RECURSIVE Ascending(_)
Ascending(S) ==
    IF S = {} THEN <<>>
    ELSE Ascending(S \ {CHOOSE m \in S : \A k \in S : k <= m})
         \o <<CHOOSE m \in S : \A k \in S : k <= m>>

\* a[idx[1]], a[idx[2]], ...
Take(a, idx) == [i \in 1..Len(idx) |-> a[idx[i]]]

Deviation(ms, mass) == [i \in 1..Len(ms) |-> Abs(ms[i] - mass)]

-----------------------------------------------------------------------------
(* get_mass_evolution *)

mass_exclusion == 5

\* lines 189-191 for scan i: ps.append, then ts.append(self.times[i]), which
\* raises IndexError when load_data left times shorter than the data
EmitNearest(self, i, m_idx, acc) ==
    IF i > Len(self.times)
    THEN [acc EXCEPT !.exc = "IndexError",
                     !.ps = Append(@, self.interpolated_data.rows[i][m_idx])]
    ELSE [acc EXCEPT !.ps = Append(@, self.interpolated_data.rows[i][m_idx]),
                     !.ts = Append(@, self.times[i])]

\* lines 180-191 for scan i
NearestStepLax(self, mass, i, m_idx, acc) == EmitNearest(self, i, m_idx, acc)

NearestStep(self, mass, i, m_idx, acc) ==
    IF Abs(self.masses[m_idx] - mass) > mass_exclusion THEN acc
    ELSE EmitNearest(self, i, m_idx, acc)

\* line 182
NearestIndex(ms, mass) == ArgMin(Deviation(ms, mass))

RECURSIVE NearestLoop(_, _, _, _)
NearestLoop(self, mass, i, acc) ==
    IF i > Len(self.interpolated_data.rows) \/ acc.exc # "none" THEN acc
    ELSE NearestLoop(self, mass, i + 1,
                     NearestStep(self, mass, i, NearestIndex(self.masses, mass), acc))

\* get_mass_evolution(mass): [exc, ps, ts]
GetMassEvolution(self, mass) ==
    NearestLoop(self, mass, 1, [exc |-> "none", ps |-> <<>>, ts |-> <<>>])

-----------------------------------------------------------------------------
(* gaussian_filter(x, sigma=2), mode 'reflect' *)

\* index of the extended array (d c b a | a b c d | d c b a), 1-based
Reflect(j, n) ==
    IF ((j - 1) % (2 * n)) < n THEN ((j - 1) % (2 * n)) + 1
    ELSE 2 * n - ((j - 1) % (2 * n))

Taps == 1..(2 * KernelRadius + 1)

SmoothAt(x, i) ==
    IF \E j \in Taps : x[Reflect(i + j - 1 - KernelRadius, Len(x))].nan THEN NaN
    ELSE F(SumTo([j \in Taps |->
                     GaussWeight(j - 1 - KernelRadius)
                     * x[Reflect(i + j - 1 - KernelRadius, Len(x))].v],
                 2 * KernelRadius + 1) \div KernelSum)

GaussianFilter(x) == [i \in 1..Len(x) |-> SmoothAt(x, i)]

-----------------------------------------------------------------------------
(* find_peaks(x, distance=2, height=5e-12) *)

\* _local_maxima_1d: the end of the plateau that starts at i (i_ahead)
RECURSIVE PlateauEnd(_, _, _)
PlateauEnd(x, i, a) ==
    IF a < Len(x) /\ FEq(x[a], x[i]) THEN PlateauEnd(x, i, a + 1) ELSE a

RECURSIVE LocalMaximaFrom(_, _)
\* the sample at i rises from i - 1 and its plateau ends before a
AfterRise(x, i, a) ==
    IF FLt(x[a], x[i])
    THEN <<(i + a - 1) \div 2>> \o LocalMaximaFrom(x, a + 1)
    ELSE LocalMaximaFrom(x, i + 1)

LocalMaximaFrom(x, i) ==
    IF i >= Len(x) THEN <<>>
    ELSE IF FLt(x[i - 1], x[i]) THEN AfterRise(x, i, PlateauEnd(x, i, i + 1))
    ELSE LocalMaximaFrom(x, i + 1)

LocalMaxima(x) == LocalMaximaFrom(x, 2)

peak_height == F(Torr12(5))

peak_distance == 2

\* the height condition: x[peak] >= height
TallEnough(x, peaks) ==
    SelectSeq(peaks, LAMBDA q : FLe(peak_height, x[q]))

\* _select_by_peak_distance: from the highest peak down, a kept peak removes
\* its neighbours closer than distance
RECURSIVE KeepByDistance(_, _, _, _)
KeepByDistance(peaks, order, i, keep) ==
    IF i = 0 THEN keep
    ELSE IF order[i] \notin keep THEN KeepByDistance(peaks, order, i - 1, keep)
    ELSE KeepByDistance(peaks, order, i - 1,
             keep \ {k \in 1..Len(peaks) :
                       k # order[i]
                       /\ Abs(peaks[k] - peaks[order[i]]) < peak_distance})

SelectByPeakDistance(x, peaks) ==
    Take(peaks,
         Ascending(KeepByDistance(peaks,
                                  ArgSort([k \in 1..Len(peaks) |-> x[peaks[k]].v]),
                                  Len(peaks), 1..Len(peaks))))

FindPeaks(x) == SelectByPeakDistance(x, TallEnough(x, LocalMaxima(x)))

-----------------------------------------------------------------------------
(* get_peakfound_pressure *)

NoResult == [none |-> TRUE, p |-> NaN, m |-> 0, peak |-> FALSE]

Result(p, m, peak) == [none |-> FALSE, p |-> p, m |-> m, peak |-> peak]

\* line 298: the grid indices within mass +- window / 2 (window in 0.1 amu)
Mask(ms, mass, window) ==
    Ascending({i \in 1..Len(ms) :
                 2 * ms[i] >= 2 * mass - window /\ 2 * ms[i] <= 2 * mass + window})

\* lines 309-310
NearestInWindow(pressures_window, masses_window, mass) ==
    Result(pressures_window[ArgMin(Deviation(masses_window, mass))],
           masses_window[ArgMin(Deviation(masses_window, mass))], FALSE)

FirstPeak(smoothed_pressures, masses_window, peaks, mass) ==
    Result(smoothed_pressures[peaks[1]], masses_window[peaks[1]], TRUE)

\* lines 312-313
ClosestPeak(smoothed_pressures, masses_window, peaks, mass) ==
    Result(smoothed_pressures[peaks[ArgMin(Deviation(Take(masses_window, peaks), mass))]],
           masses_window[peaks[ArgMin(Deviation(Take(masses_window, peaks), mass))]],
           TRUE)

PeakOrNone(pressures_window, smoothed_pressures, masses_window, peaks, mass) ==
    IF Len(peaks) = 0 THEN NoResult
    ELSE ClosestPeak(smoothed_pressures, masses_window, peaks, mass)

\* lines 307-313
PeakOrNearest(pressures_window, smoothed_pressures, masses_window, peaks, mass) ==
    IF Len(peaks) = 0 THEN NearestInWindow(pressures_window, masses_window, mass)
    ELSE ClosestPeak(smoothed_pressures, masses_window, peaks, mass)

\* lines 302-313
InWindow(pressures_window, smoothed_pressures, masses_window, mass) ==
    PeakOrNearest(pressures_window, smoothed_pressures, masses_window,
                  FindPeaks(smoothed_pressures), mass)

\* lines 299-313
WindowResult(pressures, ms, mask, mass) ==
    IF Len(mask) = 0 THEN NoResult
    ELSE InWindow(Take(pressures, mask), GaussianFilter(Take(pressures, mask)),
                  Take(ms, mask), mass)

\* get_peakfound_pressure(mass, scan_index, window), scan_index counted from 1
GetPeakfoundPressure(self, mass, scan_index, window) ==
    WindowResult(self.interpolated_data.rows[scan_index], self.masses,
                 Mask(self.masses, mass, window), mass)

\* the same called from outside: line 294 raises IndexError when there is no
\* such scan
GetPeakfoundPressureAt(self, mass, scan_index, window) ==
    IF scan_index > Len(self.interpolated_data.rows)
    THEN [exc |-> "IndexError", val |-> NoResult]
    ELSE [exc |-> "none", val |-> GetPeakfoundPressure(self, mass, scan_index, window)]

-----------------------------------------------------------------------------
(* plot_mass_evolution_peakfound_relative: the series it plots *)

\* p / p_rel, kept as the quotient of its operands; NaN when either is NaN
Quotient(p, p_rel) == [nan |-> p.nan \/ p_rel.nan, num |-> p, den |-> p_rel]

EmitRatio(acc, t, r, r_rel) ==
    [acc EXCEPT !.pressures_ratio = Append(@, Quotient(r.p, r_rel.p)),
                !.times = Append(@, t)]

RatioStepUnguarded(acc, t, r, r_rel) ==
    IF ~r.none /\ ~r_rel.none THEN EmitRatio(acc, t, r, r_rel) ELSE acc

\* lines 328-330
RatioStep(acc, t, r, r_rel) ==
    IF ~r.none /\ ~r_rel.none /\ FNe(r_rel.p, F(0))
    THEN EmitRatio(acc, t, r, r_rel)
    ELSE acc

RECURSIVE RatioLoop(_, _, _, _, _, _)
RatioLoop(self, mass, mass_rel, window, i, acc) ==
    IF i > Len(self.times) THEN acc
    ELSE RatioLoop(self, mass, mass_rel, window, i + 1,
                   RatioStep(acc, self.times[i],
                             GetPeakfoundPressure(self, mass, i, window),
                             GetPeakfoundPressure(self, mass_rel, i, window)))

\* lines 321-330
PeakfoundRelative(self, mass, mass_rel, window) ==
    RatioLoop(self, mass, mass_rel, window, 1,
              [pressures_ratio |-> <<>>, times |-> <<>>])

-----------------------------------------------------------------------------
(* _handle_large_gaps; elapsed times in seconds *)

GapThreshold == 24 * 3600

\* lines 274-289 for one sample, on st = [new_ts, new_ps, last_time,
\* time_shift, markers]
GapStepKeepDay(st, t, p, label_gap) ==
    IF t - st.last_time > GapThreshold
    THEN [new_ts |-> Append(st.new_ts,
                            t - (st.time_shift + (t - st.last_time) - GapThreshold)),
          new_ps |-> Append(st.new_ps, p),
          last_time |-> t,
          time_shift |-> st.time_shift + (t - st.last_time) - GapThreshold,
          markers |-> IF label_gap THEN Append(st.markers, st.last_time)
                      ELSE st.markers]
    ELSE [st EXCEPT !.new_ts = Append(@, t - st.time_shift),
                    !.new_ps = Append(@, p),
                    !.last_time = t]

GapStepLastShifted(st, t, p, label_gap) ==
    IF t - st.last_time > GapThreshold
    THEN [new_ts |-> Append(st.new_ts, t - (st.time_shift + (t - st.last_time))),
          new_ps |-> Append(st.new_ps, p),
          last_time |-> t - (st.time_shift + (t - st.last_time)),
          time_shift |-> st.time_shift + (t - st.last_time),
          markers |-> IF label_gap THEN Append(st.markers, st.last_time)
                      ELSE st.markers]
    ELSE [st EXCEPT !.new_ts = Append(@, t - st.time_shift),
                    !.new_ps = Append(@, p),
                    !.last_time = t - st.time_shift]

GapStepMarkShifted(st, t, p, label_gap) ==
    IF t - st.last_time > GapThreshold
    THEN [new_ts |-> Append(st.new_ts, t - (st.time_shift + (t - st.last_time))),
          new_ps |-> Append(st.new_ps, p),
          last_time |-> t,
          time_shift |-> st.time_shift + (t - st.last_time),
          markers |-> IF label_gap
                      THEN Append(st.markers, st.last_time - st.time_shift)
                      ELSE st.markers]
    ELSE [st EXCEPT !.new_ts = Append(@, t - st.time_shift),
                    !.new_ps = Append(@, p),
                    !.last_time = t]

GapStepAtLeast(st, t, p, label_gap) ==
    IF t - st.last_time >= GapThreshold
    THEN [new_ts |-> Append(st.new_ts, t - (st.time_shift + (t - st.last_time))),
          new_ps |-> Append(st.new_ps, p),
          last_time |-> t,
          time_shift |-> st.time_shift + (t - st.last_time),
          markers |-> IF label_gap THEN Append(st.markers, st.last_time)
                      ELSE st.markers]
    ELSE [st EXCEPT !.new_ts = Append(@, t - st.time_shift),
                    !.new_ps = Append(@, p),
                    !.last_time = t]

GapStep(st, t, p, label_gap) ==
    IF t - st.last_time > GapThreshold
    THEN [new_ts |-> Append(st.new_ts, t - (st.time_shift + (t - st.last_time))),
          new_ps |-> Append(st.new_ps, p),
          last_time |-> t,
          time_shift |-> st.time_shift + (t - st.last_time),
          markers |-> IF label_gap THEN Append(st.markers, st.last_time)
                      ELSE st.markers]
    ELSE [st EXCEPT !.new_ts = Append(@, t - st.time_shift),
                    !.new_ps = Append(@, p),
                    !.last_time = t]

RECURSIVE GapLoop(_, _, _, _, _)
GapLoop(ts, ps, label_gap, i, st) ==
    IF i > Len(ts) THEN st
    ELSE GapLoop(ts, ps, label_gap, i + 1, GapStep(st, ts[i], ps[i], label_gap))

GapReturn(exc, st) ==
    [called |-> TRUE, exc |-> exc, ts |-> st.new_ts, ps |-> st.new_ps,
     markers |-> st.markers]

EmptyGapState ==
    [new_ts |-> <<>>, new_ps |-> <<>>, last_time |-> 0, time_shift |-> 0,
     markers |-> <<>>]

\* _handle_large_gaps(ts, ps, ax, label_gap): the series it returns and the
\* positions of the vertical markers it draws on ax; ts[0] on an empty series
\* is an IndexError
HandleLargeGaps(ts, ps, label_gap) ==
    IF Len(ts) = 0 THEN GapReturn("IndexError", EmptyGapState)
    ELSE GapReturn("none",
                   GapLoop(ts, ps, label_gap, 1,
                           [EmptyGapState EXCEPT !.last_time = ts[1]]))

-----------------------------------------------------------------------------
(* plot_mass_evolution_peakfound: the series it plots *)

\* lines 236-245 for scan i, on acc = [ts_control_h, ps_control, ts_xenon_h,
\* ps_xenon]
PeakfoundStep(acc, timestamp, label, r) ==
    IF r.none THEN acc
    ELSE IF label = "control_run"
    THEN [acc EXCEPT !.ts_control_h =
                         Append(@, timestamp - run_intervals.control_run[1]),
                     !.ps_control = Append(@, r.p)]
    ELSE IF label = "xenon_run"
    THEN [acc EXCEPT !.ts_xenon_h =
                         Append(@, timestamp - run_intervals.xenon_run[1]),
                     !.ps_xenon = Append(@, r.p)]
    ELSE acc

RECURSIVE PeakfoundLoop(_, _, _, _, _)
PeakfoundLoop(self, mass, window, i, acc) ==
    IF i > Len(self.times) THEN acc
    ELSE PeakfoundLoop(self, mass, window, i + 1,
                       PeakfoundStep(acc, self.times[i], self.labels[i],
                                     GetPeakfoundPressure(self, mass, i, window)))

\* lines 247-255: the control series as collected, the xenon series through
\* _handle_large_gaps when it is not empty
PlottedSeries(acc, label_gap) ==
    [ts_control_h |-> acc.ts_control_h, ps_control |-> acc.ps_control,
     xenon |-> IF Len(acc.ps_xenon) = 0
               THEN [called |-> FALSE, exc |-> "none", ts |-> <<>>, ps |-> <<>>,
                     markers |-> <<>>]
               ELSE HandleLargeGaps(acc.ts_xenon_h, acc.ps_xenon, label_gap)]

\* plot_mass_evolution_peakfound(mass, window, label_gap)
Peakfound(self, mass, window, label_gap) ==
    PlottedSeries(PeakfoundLoop(self, mass, window, 1,
                                [ts_control_h |-> <<>>, ps_control |-> <<>>,
                                 ts_xenon_h |-> <<>>, ps_xenon |-> <<>>]),
                  label_gap)

-----------------------------------------------------------------------------
(* Inputs of the ingestion specification *)

GridStart == 10

\* grids of 0.1 amu and of 0.2 amu steps
Grids == {Arange(GridStart, GridLen, 1), Arange(GridStart, GridLen, 2)}

RawFull == <<Row(10, 0), Row(12, Torr12(60)), Row(14, 0), Row(30, 0)>>

RawPartial == <<Row(11, Torr12(8)), Row(13, 0)>>

\* instants at and next to the bounds of the two run intervals
FileTimes ==
    UNION {{run_intervals[r][1] - 1, run_intervals[r][1],
            run_intervals[r][2], run_intervals[r][2] + 1}
           : r \in {"control_run", "xenon_run"}}

ScanFile(t, rows) == [name |-> GenerateFilename(t), ext |-> "dat", rows |-> rows]

WellFormedFiles == {ScanFile(t, rows) : t \in FileTimes, rows \in {RawFull, RawPartial}}

InDay17 == Datetime(17, 12, 0, 0)

MalformedFiles ==
    { \* a prefix with one underscore only: the date is cut off the name
      [name |-> <<Word, DateTok(17), TimeTok(43200)>>, ext |-> "dat",
       rows |-> RawFull],
      \* a tab-separated table (the lxedrivers producer)
      [name |-> GenerateFilename(InDay17), ext |-> "dat",
       rows |-> <<BadRow, BadRow>>] }

OtherFiles ==
    { \* a single data row
      [name |-> GenerateFilename(InDay17), ext |-> "dat",
       rows |-> <<Row(10, Torr12(3))>>],
      \* not a .dat file
      [name |-> <<Word>>, ext |-> "txt", rows |-> <<>>] }

IngestFiles == WellFormedFiles \cup MalformedFiles \cup OtherFiles

SeqsUpTo(S, n) == UNION {[1..k -> S] : k \in 0..n}

Fresh == [masses |-> <<>>, times |-> <<>>, labels |-> <<>>,
          interpolated_data |-> [array |-> FALSE, rows |-> <<>>],
          outcome |-> "none"]

Self == [masses |-> masses, times |-> times, labels |-> labels,
         interpolated_data |-> interpolated_data, outcome |-> outcome]

NoQuery == [op |-> "none"]

NoGap == [b \in BOOLEAN |->
            [called |-> FALSE, exc |-> "none", ts |-> <<>>, ps |-> <<>>,
             markers |-> <<>>]]

\* no acquisition task exists
NoTask == [pc |-> "none"]

\* OfflineAnalysis.__init__
Constructed ==
    /\ masses = Fresh.masses
    /\ times = Fresh.times
    /\ labels = Fresh.labels
    /\ interpolated_data = Fresh.interpolated_data
    /\ outcome = Fresh.outcome
    /\ query = NoQuery

Init ==
    /\ directory \in SeqsUpTo(IngestFiles, MaxFiles)
    /\ Constructed
    /\ gap_in = <<>>
    /\ gap_out = NoGap
    /\ task = NoTask

Assign(after) ==
    /\ masses' = after.masses
    /\ times' = after.times
    /\ labels' = after.labels
    /\ interpolated_data' = after.interpolated_data
    /\ outcome' = after.outcome

\* the call of load_data(target_mass_grid) on the constructed object (the
\* scripts load an object once)
LoadDataCall ==
    /\ outcome = "none"
    /\ \E grid \in Grids : Assign(LoadData(Self, directory, grid))
    /\ query' = [op |-> "load_data"]
    /\ UNCHANGED <<directory, gap_in, gap_out, task>>

Next == LoadDataCall

Spec == Init /\ [][Next]_vars

-----------------------------------------------------------------------------
(* The extraction specification: a directory of scan files is loaded and   *)
(* queried.                                                                *)

MaxScans == 2

RawLow == <<Row(10, 0), Row(12, Torr12(6)), Row(14, 0), Row(30, 0)>>

RawZero == <<Row(10, 0), Row(30, 0)>>

InControlRun == Datetime(12, 8, 0, 0)

InXenonRun == Datetime(17, 8, 0, 0)

LaterInXenonRun == Datetime(18, 14, 0, 0)

ExtractFiles ==
    {ScanFile(InControlRun, RawFull),
     ScanFile(InXenonRun, RawFull),
     ScanFile(InXenonRun, RawPartial),
     ScanFile(LaterInXenonRun, RawZero),
     ScanFile(LaterInXenonRun, RawLow),
     [name |-> GenerateFilename(InXenonRun), ext |-> "dat",
      rows |-> <<BadRow, BadRow>>]}

QueryMasses == {4, 5, 11, 12}

RatioMasses == {4, 12}

RelativeMasses == {4, 10, 12}

Windows == {2, 4}

PlotWindows == {4}

PeakMasses == {4, 8, 12}

InitExtract ==
    /\ directory \in SeqsUpTo(ExtractFiles, MaxScans)
    /\ Constructed
    /\ gap_in = <<>>
    /\ gap_out = NoGap
    /\ task = NoTask

\* a call of get_mass_evolution(mass)
GetMassEvolutionCall ==
    /\ \E mass \in QueryMasses :
         query' = [op |-> "get_mass_evolution", mass |-> mass,
                   ret |-> GetMassEvolution(Self, mass)]
    /\ UNCHANGED <<directory, masses, times, labels, interpolated_data, outcome,
                   gap_in, gap_out, task>>

\* a call of plot_mass_evolution_peakfound_relative(mass, mass_rel, window)
PeakfoundRelativeCall ==
    /\ \E mass \in RatioMasses, mass_rel \in RelativeMasses, window \in Windows :
         query' = [op |-> "plot_mass_evolution_peakfound_relative",
                   mass |-> mass, mass_rel |-> mass_rel, window |-> window,
                   ret |-> PeakfoundRelative(Self, mass, mass_rel, window)]
    /\ UNCHANGED <<directory, masses, times, labels, interpolated_data, outcome,
                   gap_in, gap_out, task>>

\* a call of plot_mass_evolution_peakfound(mass, window, label_gap)
PeakfoundCall ==
    /\ \E mass \in RatioMasses, window \in PlotWindows, label_gap \in BOOLEAN :
         query' = [op |-> "plot_mass_evolution_peakfound",
                   mass |-> mass, window |-> window, label_gap |-> label_gap,
                   ret |-> Peakfound(Self, mass, window, label_gap)]
    /\ UNCHANGED <<directory, masses, times, labels, interpolated_data, outcome,
                   gap_in, gap_out, task>>

\* a call of get_peakfound_pressure(mass, scan_index, window)
GetPeakfoundPressureCall ==
    /\ \E mass \in PeakMasses, scan_index \in 1..MaxScans, window \in Windows :
         query' = [op |-> "get_peakfound_pressure", mass |-> mass,
                   scan_index |-> scan_index, window |-> window,
                   ret |-> GetPeakfoundPressureAt(Self, mass, scan_index, window)]
    /\ UNCHANGED <<directory, masses, times, labels, interpolated_data, outcome,
                   gap_in, gap_out, task>>

NextExtract ==
    \/ LoadDataCall
    \/ GetPeakfoundPressureCall
    \/ GetMassEvolutionCall
    \/ PeakfoundRelativeCall
    \/ PeakfoundCall

SpecExtract == InitExtract /\ [][NextExtract]_vars

-----------------------------------------------------------------------------
(* The peak-window specification: scans are loaded on a grid long enough   *)
(* for two peaks to survive the smoothing of a window, and queried.        *)

\* a grid of 0.1 amu steps, about twice as long as the ingestion grids
WideGrid == Arange(GridStart, 2 * GridLen - 1, 1)

\* two lines of equal height four grid steps apart
RawTwoPeaks ==
    <<Row(10, 0), Row(11, 0), Row(12, Torr12(60)), Row(13, 0), Row(15, 0),
      Row(16, Torr12(60)), Row(17, 0), Row(30, 0)>>

PeakFiles ==
    {ScanFile(InControlRun, RawTwoPeaks),
     ScanFile(InXenonRun, RawFull),
     ScanFile(InXenonRun, RawPartial),
     ScanFile(LaterInXenonRun, RawLow)}

WideMasses == {12, 13, 14, 15, 22}

WideWindows == {4, 10}

InitPeak ==
    /\ directory \in SeqsUpTo(PeakFiles, MaxScans)
    /\ Constructed
    /\ gap_in = <<>>
    /\ gap_out = NoGap
    /\ task = NoTask

\* the call of load_data(target_mass_grid=WideGrid) on the constructed object
LoadDataWideCall ==
    /\ outcome = "none"
    /\ Assign(LoadData(Self, directory, WideGrid))
    /\ query' = [op |-> "load_data"]
    /\ UNCHANGED <<directory, gap_in, gap_out, task>>

\* a call of get_peakfound_pressure(mass, scan_index, window) on the wide grid
GetPeakfoundPressureWideCall ==
    /\ \E mass \in WideMasses, scan_index \in 1..MaxScans, window \in WideWindows :
         query' = [op |-> "get_peakfound_pressure", mass |-> mass,
                   scan_index |-> scan_index, window |-> window,
                   ret |-> GetPeakfoundPressureAt(Self, mass, scan_index, window)]
    /\ UNCHANGED <<directory, masses, times, labels, interpolated_data, outcome,
                   gap_in, gap_out, task>>

NextPeak ==
    \/ LoadDataWideCall
    \/ GetPeakfoundPressureWideCall

SpecPeak == InitPeak /\ [][NextPeak]_vars

-----------------------------------------------------------------------------
(* The gap compression specification: _handle_large_gaps on series of      *)
(* non-decreasing elapsed times, as plot_mass_evolution_peakfound hands it *)
(* the xenon scans of the sorted repository.                               *)

MaxSamples == 3

Hour == 3600

ElapsedTimes ==
    {0, Hour, 24 * Hour, 24 * Hour + 1, 25 * Hour, 30 * Hour, 49 * Hour + 1,
     80 * Hour}

SamplePressures == {F(Torr12(1)), F(Torr12(2))}

NonDecreasing(ts) == \A i \in 1..(Len(ts) - 1) : ts[i] <= ts[i + 1]

InitGap ==
    /\ \E n \in 0..MaxSamples :
         \E ts \in [1..n -> ElapsedTimes], ps \in [1..n -> SamplePressures] :
            /\ NonDecreasing(ts)
            /\ gap_in = [ts |-> ts, ps |-> ps]
    /\ directory = <<>>
    /\ Constructed
    /\ gap_out = NoGap
    /\ task = NoTask

\* a call of _handle_large_gaps(ts, ps, ax, label_gap)
HandleLargeGapsCall ==
    /\ \E label_gap \in BOOLEAN :
         /\ ~gap_out[label_gap].called
         /\ gap_out' = [gap_out EXCEPT
                          ![label_gap] = HandleLargeGaps(gap_in.ts, gap_in.ps, label_gap)]
    /\ UNCHANGED <<directory, masses, times, labels, interpolated_data, outcome,
                   query, gap_in, task>>

NextGap == HandleLargeGapsCall

SpecGap == InitGap /\ [][NextGap]_vars

-----------------------------------------------------------------------------
(* The acquisition specification: IsotopeAnalysis.test of rgadrivers and   *)
(* of lxedrivers.  task = [pc, variant, task_passed, files_written] and    *)
(* what happened so far: iterations (loop bodies entered), written (file   *)
(* writes completed), failed (except clauses run), connected (the last     *)
(* answer of is_connected) and ended_by (why test() ended).                *)

MaxIterations == 3

Variants == {"rgadrivers", "lxedrivers"}

\* the task before test() is called; the flag is whatever the framework left
NewTask(variant, flag) ==
    [pc |-> "start", variant |-> variant, task_passed |-> flag,
     files_written |-> 0, iterations |-> 0, written |-> 0, failed |-> 0,
     connected |-> TRUE, ended_by |-> "none"]

\* lines 35-41 (34-37 in lxedrivers): os.makedirs, in rgadrivers only, may
\* raise, outside of any try
Prologue(t, makedirs_raises) ==
    IF t.variant = "rgadrivers" /\ makedirs_raises
    THEN [t EXCEPT !.task_passed = TRUE, !.pc = "ended", !.ended_by = "raised"]
    ELSE [t EXCEPT !.task_passed = TRUE, !.files_written = 0, !.pc = "while"]

\* line 42: while self.is_running()
WhileCondition(t, is_running) ==
    IF is_running
    THEN [t EXCEPT !.pc = "scan", !.iterations = @ + 1]
    ELSE [t EXCEPT !.pc = "ended", !.ended_by = "stopped"]

\* a group of statements of the try block: on an exception control goes to
\* the except clause, else to the next group
TryGroup(t, raises, next) ==
    IF raises THEN [t EXCEPT !.pc = "except"] ELSE [t EXCEPT !.pc = next]

\* lines 58-62: the with block, which raises or completes the file, then
\* files_written += 1
Write(t, raises) ==
    IF raises THEN [t EXCEPT !.pc = "except"]
    ELSE [t EXCEPT !.pc = "print", !.written = @ + 1, !.files_written = @ + 1]

ExceptFlagKept(t, is_connected) ==
    [t EXCEPT !.failed = @ + 1,
              !.connected = is_connected,
              !.pc = IF is_connected THEN "while" ELSE "ended",
              !.ended_by = IF is_connected THEN @ ELSE "disconnected"]

\* lines 66-71: the except clause
Except(t, is_connected) ==
    [t EXCEPT !.task_passed = FALSE,
              !.failed = @ + 1,
              !.connected = is_connected,
              !.pc = IF is_connected THEN "while" ELSE "ended",
              !.ended_by = IF is_connected THEN @ ELSE "disconnected"]

InitAcquire ==
    /\ task \in {NewTask(v, flag) : v \in Variants, flag \in BOOLEAN}
    /\ directory = <<>>
    /\ Constructed
    /\ gap_in = <<>>
    /\ gap_out = NoGap

OfflineUnchanged ==
    UNCHANGED <<directory, masses, times, labels, interpolated_data, outcome,
                query, gap_in, gap_out>>

\* test() is called and runs up to the loop
TestStart ==
    /\ task.pc = "start"
    /\ \E makedirs_raises \in BOOLEAN : task' = Prologue(task, makedirs_raises)
    /\ OfflineUnchanged

\* the loop condition is evaluated; the task is stopped at the latest after
\* MaxIterations iterations
LoopCondition ==
    /\ task.pc = "while"
    /\ \E is_running \in BOOLEAN :
         /\ is_running => task.iterations < MaxIterations
         /\ task' = WhileCondition(task, is_running)
    /\ OfflineUnchanged

\* lines 45-49: the scan is taken from the RGA
Scan ==
    /\ task.pc = "scan"
    /\ \E raises \in BOOLEAN : task' = TryGroup(task, raises, "abundances")
    /\ OfflineUnchanged

\* lines 52-55: the abundances are computed and printed
Abundances ==
    /\ task.pc = "abundances"
    /\ \E raises \in BOOLEAN : task' = TryGroup(task, raises, "write")
    /\ OfflineUnchanged

\* lines 58-62: the file is written and counted
WriteFile ==
    /\ task.pc = "write"
    /\ \E raises \in BOOLEAN : task' = Write(task, raises)
    /\ OfflineUnchanged

\* line 64: the scan is reported on the console
PrintScan ==
    /\ task.pc = "print"
    /\ \E raises \in BOOLEAN : task' = TryGroup(task, raises, "while")
    /\ OfflineUnchanged

\* lines 66-71: the exception is handled
HandleException ==
    /\ task.pc = "except"
    /\ \E is_connected \in BOOLEAN : task' = Except(task, is_connected)
    /\ OfflineUnchanged

NextAcquire ==
    \/ TestStart
    \/ LoopCondition
    \/ Scan
    \/ Abundances
    \/ WriteFile
    \/ PrintScan
    \/ HandleException

SpecAcquire == InitAcquire /\ [][NextAcquire]_vars

-----------------------------------------------------------------------------
(* Ingestion: claims C1-C3 *)

\* the .dat files of the listing, in discovery order
DataFiles == SelectSeq(directory, IsDat)

\* a scan file whose name encodes a timestamp and whose content is a numeric
\* two-column table that can be interpolated
WellFormed(file) == ParseTimestamp(file.name).ok /\ LoadTxt(file.rows) = "ok"

FileTime(k) == ParseTimestamp(DataFiles[k].name).t

\* scan i of the repository is the scan of `file`
IsScanOf(i, file) ==
    /\ times[i] = ParseTimestamp(file.name).t
    /\ interpolated_data.rows[i] = Interp1d(file.rows, masses)

Ingested(file) == \E i \in 1..Len(times) : IsScanOf(i, file)

\* C1: after load_data ran on a directory holding a malformed scan file,
\* ingestion did not abort and every well-formed scan file of the directory
\* is in the repository.
C1_MalformedFileSkipped ==
    (/\ outcome # "none"
     /\ \E k \in 1..Len(DataFiles) : ~WellFormed(DataFiles[k])
     /\ \E k \in 1..Len(DataFiles) : WellFormed(DataFiles[k]))
    => /\ outcome = "returned"
       /\ \A k \in 1..Len(DataFiles) :
            WellFormed(DataFiles[k]) => Ingested(DataFiles[k])

\* position of data file k after a stable sort by timestamp: the files with
\* an earlier timestamp, then those with the same one discovered no later
Rank(k) ==
    Cardinality({j \in 1..Len(DataFiles) : FileTime(j) < FileTime(k)})
    + Cardinality({j \in 1..k : FileTime(j) = FileTime(k)})

\* C2: after load_data completes the stored scans are non-decreasing in
\* timestamp whatever the discovery order, and scans with equal timestamps
\* keep their discovery order: the scan of data file k is at position Rank(k).
C2_SortedStable ==
    outcome = "returned" =>
        /\ \A i \in 1..(Len(times) - 1) : times[i] <= times[i + 1]
        /\ Len(times) = Len(DataFiles)
        /\ \A k \in 1..Len(DataFiles) : IsScanOf(Rank(k), DataFiles[k])

\* three files discovered out of order, the last two with the same timestamp
\* and different content
C2_Witness ==
    /\ outcome = "returned"
    /\ Len(DataFiles) = 3
    /\ FileTime(1) > FileTime(2)
    /\ FileTime(2) = FileTime(3)
    /\ DataFiles[2].rows # DataFiles[3].rows

InClosed(t, lo, hi) == lo <= t /\ t <= hi

InControl(t) == InClosed(t, Datetime(11, 16, 46, 0), Datetime(16, 9, 44, 0))

InXenon(t) == InClosed(t, Datetime(16, 11, 21, 0), Datetime(26, 11, 0, 0))

\* C3: the label of every ingested scan is exactly one of control_run,
\* xenon_run and None: control_run on the closed control interval, else
\* xenon_run on the closed xenon interval, else None; an instant strictly
\* between the two intervals is None.
C3_LabelClosedTotal ==
    outcome = "returned" =>
        \A i \in 1..Len(times) :
            /\ labels[i] \in {"control_run", "xenon_run", None}
            /\ InControl(times[i]) => labels[i] = "control_run"
            /\ (~InControl(times[i]) /\ InXenon(times[i])) => labels[i] = "xenon_run"
            /\ (~InControl(times[i]) /\ ~InXenon(times[i])) => labels[i] = None
            /\ (Datetime(16, 9, 44, 0) < times[i] /\ times[i] < Datetime(16, 11, 21, 0))
                   => labels[i] = None

\* scans at the end of the control run, in the gap and at the start of the
\* xenon run
C3_Witness ==
    /\ outcome = "returned"
    /\ \E i, j, k \in 1..Len(times) :
         /\ times[i] = Datetime(16, 9, 44, 0) /\ labels[i] = "control_run"
         /\ times[j] = Datetime(16, 9, 44, 1) /\ labels[j] = None
         /\ times[k] = Datetime(16, 11, 21, 0) /\ labels[k] = "xenon_run"

-----------------------------------------------------------------------------
(* Extraction: claims C4-C7 *)

Dev(i, mass) == Abs(masses[i] - mass)

\* grid index i minimises the deviation from mass and is the lowest such index
LowestNearest(i, mass) ==
    /\ \A j \in 1..Len(masses) : Dev(i, mass) <= Dev(j, mass)
    /\ \A j \in 1..(i - 1) : Dev(j, mass) > Dev(i, mass)

\* C4: get_mass_evolution takes, for each scan, the pressure at the lowest
\* grid index nearest to the mass; it emits (timestamp, that pressure) for
\* every scan, in repository order, when the deviation is at most 0.5 amu and
\* nothing otherwise, so no emitted sample deviates by more than 0.5 amu
\* (5 units of 0.1 amu).
C4_NearestWithinTolerance ==
    (query.op = "get_mass_evolution" /\ query.ret.exc = "none"
     /\ Len(interpolated_data.rows) > 0)
    => \E i \in 1..Len(masses) :
         /\ LowestNearest(i, query.mass)
         /\ Len(query.ret.ps) = Len(query.ret.ts)
         /\ Len(query.ret.ps) > 0 => Dev(i, query.mass) <= 5
         /\ IF Dev(i, query.mass) <= 5
            THEN /\ query.ret.ts = times
                 /\ query.ret.ps =
                        [k \in 1..Len(times) |-> interpolated_data.rows[k][i]]
            ELSE query.ret.ts = <<>>

\* two scans emitted at a mass half way between two grid points that hold
\* different pressures, and a deviation of exactly 0.5 amu
C4_Witness ==
    /\ query.op = "get_mass_evolution"
    /\ query.ret.exc = "none"
    /\ Len(query.ret.ts) = 2
    /\ query.ret.ts[1] < query.ret.ts[2]
    /\ \/ \E i \in 1..(Len(masses) - 1) :
            /\ LowestNearest(i, query.mass)
            /\ Dev(i, query.mass) = Dev(i + 1, query.mass)
            /\ interpolated_data.rows[1][i] # interpolated_data.rows[1][i + 1]
       \/ \E i \in 1..Len(masses) :
            LowestNearest(i, query.mass) /\ Dev(i, query.mass) = 5

\* some grid mass lies in [mass - window / 2, mass + window / 2]
WindowHasPoint(mass, window) ==
    \E i \in 1..Len(masses) :
        2 * masses[i] >= 2 * mass - window /\ 2 * masses[i] <= 2 * mass + window

\* the relative pressure of scan i in the last ratio call
RelativePressure(i) ==
    GetPeakfoundPressure(Self, query.mass_rel, i, query.window).p

\* scan i gives a ratio sample: both windows hold a grid point and the
\* relative pressure is not zero
RatioEligible(i) ==
    /\ WindowHasPoint(query.mass, query.window)
    /\ WindowHasPoint(query.mass_rel, query.window)
    /\ ~(~RelativePressure(i).nan /\ RelativePressure(i).v = 0)

EligibleScans == Ascending({i \in 1..Len(times) : RatioEligible(i)})

\* C5: ratio extraction emits (timestamp, pressure / relative pressure) for
\* exactly the scans with both peak-window results present and a non-zero
\* relative pressure, in order; no emitted sample has a zero relative pressure.
C5_RatioGuard ==
    query.op = "plot_mass_evolution_peakfound_relative" =>
        /\ \A k \in 1..Len(query.ret.pressures_ratio) :
              ~(~query.ret.pressures_ratio[k].den.nan
                /\ query.ret.pressures_ratio[k].den.v = 0)
        /\ query.ret.times = Take(times, EligibleScans)
        /\ query.ret.pressures_ratio =
              [k \in 1..Len(EligibleScans) |->
                  Quotient(GetPeakfoundPressure(Self, query.mass, EligibleScans[k],
                                                query.window).p,
                           RelativePressure(EligibleScans[k]))]

\* a ratio call that emitted one scan and skipped another for its zero
\* relative pressure
C5_Witness ==
    /\ query.op = "plot_mass_evolution_peakfound_relative"
    /\ Len(query.ret.times) = 1
    /\ Len(times) = 2
    /\ WindowHasPoint(query.mass, query.window)
    /\ WindowHasPoint(query.mass_rel, query.window)
    /\ \E i \in 1..Len(times) :
          ~RelativePressure(i).nan /\ RelativePressure(i).v = 0

\* C6: in ratio mode no sample is emitted for a scan whose relative pressure
\* is the missing-value sentinel.
C6_MissingDenominatorSkipped ==
    query.op = "plot_mass_evolution_peakfound_relative" =>
        \A k \in 1..Len(query.ret.pressures_ratio) :
            ~query.ret.pressures_ratio[k].den.nan

\* C7: get_peakfound_pressure on an existing scan never raises; it returns
\* (None, None) exactly when no grid mass lies in the window, and otherwise a
\* pressure with a grid mass of the window, by the nearest-point fallback when
\* no peak qualifies.
C7_ResultIffWindowHasPoint ==
    query.op = "get_peakfound_pressure" =>
        /\ query.scan_index <= Len(interpolated_data.rows) => query.ret.exc = "none"
        /\ query.ret.exc = "none" =>
              /\ query.ret.val.none <=> ~WindowHasPoint(query.mass, query.window)
              /\ ~query.ret.val.none =>
                    \E i \in 1..Len(masses) :
                        /\ masses[i] = query.ret.val.m
                        /\ 2 * masses[i] >= 2 * query.mass - query.window
                        /\ 2 * masses[i] <= 2 * query.mass + query.window

\* a window with grid points and no qualifying peak: the fallback answered
C7_Witness ==
    /\ query.op = "get_peakfound_pressure"
    /\ query.ret.exc = "none"
    /\ WindowHasPoint(query.mass, query.window)
    /\ ~query.ret.val.none
    /\ ~query.ret.val.peak

-----------------------------------------------------------------------------
(* Gap compression: claims C8-C10 *)

\* the samples whose original time exceeds the previous sample's by more
\* than 24 h
GapsOf(ts) == {i \in 2..Len(ts) : ts[i] - ts[i - 1] > 24 * 3600}

Span(ts) == ts[Len(ts)] - ts[1]

C10_GapMarkers ==
    /\ gap_out[TRUE].called =>
          gap_out[TRUE].markers =
              [k \in 1..Cardinality(GapsOf(gap_in.ts)) |->
                  gap_in.ts[Ascending(GapsOf(gap_in.ts))[k] - 1]]
    /\ gap_out[FALSE].called => gap_out[FALSE].markers = <<>>
    /\ (gap_out[TRUE].called /\ gap_out[FALSE].called) =>
          /\ gap_out[TRUE].ts = gap_out[FALSE].ts
          /\ gap_out[TRUE].ps = gap_out[FALSE].ps

\* both calls made on a series with two gaps
C10_Witness ==
    /\ gap_out[TRUE].called
    /\ gap_out[FALSE].called
    /\ Cardinality(GapsOf(gap_in.ts)) = 2
    /\ Len(gap_out[TRUE].markers) = 2

-----------------------------------------------------------------------------
(* Ingestion: claims C11 and C14 *)

\* the timestamps of the data files, in discovery order
DataTimes == [k \in 1..Len(DataFiles) |-> FileTime(k)]

\* the positions of the data files after a stable sort by timestamp
StableRanks(ts) ==
    [k \in 1..Len(ts) |->
        Cardinality({j \in 1..Len(ts) : ts[j] < ts[k]})
        + Cardinality({j \in 1..k : ts[j] = ts[k]})]

\* the masses of a raw table
RawMasses(rows) == {rows[r].m : r \in 1..Len(rows)}

\* grid mass x is outside [min(raw masses), max(raw masses)]
OutsideRaw(raw_masses, x) ==
    (\A m \in raw_masses : x < m) \/ (\A m \in raw_masses : x > m)

\* vector has one entry per grid mass, NaN outside the raw mass range and
\* the raw pressure at a grid mass that is a raw mass
VectorMatchesRaw(vector, rows, raw_masses, ms) ==
    /\ Len(vector) = Len(ms)
    /\ \A i \in 1..Len(ms) :
          /\ OutsideRaw(raw_masses, ms[i]) => vector[i] = NaN
          /\ \A r \in 1..Len(rows) :
                rows[r].m = ms[i] => vector[i] = F(rows[r].p)

VectorsMatchRaw(files, ts, ranks) ==
    \A k \in 1..Len(files) :
        /\ times[ranks[k]] = ts[k]
        /\ VectorMatchesRaw(interpolated_data.rows[ranks[k]], files[k].rows,
                            RawMasses(files[k].rows), masses)

\* C11: after load_data completes, the interpolated pressure vector of every
\* ingested scan has as many entries as the mass grid; the entry at a grid
\* point outside [min(raw masses), max(raw masses)] is NaN, never a value; and
\* the entry at a grid point equal to a raw mass is that row's raw pressure.
C11_InterpolatedVector ==
    outcome = "returned" =>
        VectorsMatchRaw(DataFiles, DataTimes, StableRanks(DataTimes))

\* grid index i of the scan of `rows` is left of the raw masses, right of
\* them, or on a raw mass with a non-zero pressure that the vector holds
LeftOfRaw(rows, i) == \A r \in 1..Len(rows) : masses[i] < rows[r].m

RightOfRaw(rows, i) == \A r \in 1..Len(rows) : masses[i] > rows[r].m

OnRawLine(rows, vector, i) ==
    \E r \in 1..Len(rows) :
        rows[r].m = masses[i] /\ rows[r].p > 0 /\ vector[i] = F(rows[r].p)

\* a scan whose raw masses leave grid points out on both sides and hit a grid
\* point with a non-zero pressure
C11_Witness ==
    /\ outcome = "returned"
    /\ \E k \in 1..Len(DataFiles) :
          /\ \E i \in 1..Len(masses) : LeftOfRaw(DataFiles[k].rows, i)
          /\ \E i \in 1..Len(masses) : RightOfRaw(DataFiles[k].rows, i)
          /\ \E i \in 1..Len(masses) :
                OnRawLine(DataFiles[k].rows, interpolated_data.rows[Rank(k)], i)

\* the run label of instant t
LabelAt(t) ==
    IF InControl(t) THEN "control_run"
    ELSE IF InXenon(t) THEN "xenon_run"
    ELSE None

\* every position 1..n is the rank of exactly one file
OneFilePerIndex(ranks) ==
    \A k \in 1..Len(ranks) :
        /\ ranks[k] \in 1..Len(ranks)
        /\ \A j \in 1..Len(ranks) : ranks[j] = ranks[k] => j = k

\* the timestamp, the label and the vector of each file are at its rank
AlignedAtRanks(files, ts, ranks) ==
    \A k \in 1..Len(files) :
        /\ times[ranks[k]] = ts[k]
        /\ labels[ranks[k]] = LabelAt(ts[k])
        /\ interpolated_data.rows[ranks[k]] = Interp1d(files[k].rows, masses)

AlignedWith(files, ts, ranks) ==
    /\ Len(times) = Len(files)
    /\ Len(labels) = Len(files)
    /\ Len(interpolated_data.rows) = Len(files)
    /\ OneFilePerIndex(ranks)
    /\ AlignedAtRanks(files, ts, ranks)

\* C14: after load_data completes on a directory whose n .dat files are all
\* well-formed, times, labels and interpolated_data have n entries each, and
\* for every file the timestamp, the label and the interpolated vector of
\* that file sit at one and the same index, its position in the stable sort
\* by timestamp: nothing of the discovery-order appends is left.
C14_IndexAligned ==
    (/\ outcome = "returned"
     /\ \A k \in 1..Len(DataFiles) : WellFormed(DataFiles[k]))
    => AlignedWith(DataFiles, DataTimes, StableRanks(DataTimes))

\* three files discovered latest first, each with its own label, the two
\* earliest with different content
C14_Witness ==
    /\ outcome = "returned"
    /\ Len(DataFiles) = 3
    /\ FileTime(1) > FileTime(2)
    /\ FileTime(2) > FileTime(3)
    /\ Cardinality({labels[i] : i \in 1..3}) = 3
    /\ interpolated_data.rows[1] # interpolated_data.rows[2]
    /\ interpolated_data.rows[3] = Interp1d(DataFiles[1].rows, masses)

-----------------------------------------------------------------------------
(* Peak-window extraction: claim C12 *)

\* the grid indices of the window of the last query, ascending
WindowIndices ==
    Ascending({i \in 1..Len(masses) :
                 /\ 2 * masses[i] >= 2 * query.mass - query.window
                 /\ 2 * masses[i] <= 2 * query.mass + query.window})

\* val is the smoothed pressure and the grid mass of a detected peak that no
\* other detected peak beats in closeness to mass
IsClosestPeak(val, mass, masses_window, smoothed, peaks) ==
    \E q \in 1..Len(peaks) :
        /\ val.p = smoothed[peaks[q]]
        /\ val.m = masses_window[peaks[q]]
        /\ \A r \in 1..Len(peaks) :
              Abs(masses_window[peaks[q]] - mass) <= Abs(masses_window[peaks[r]] - mass)

\* val is the raw pressure and the grid mass at a window index nearest to mass
IsNearestRaw(val, mass, masses_window, raw) ==
    \E j \in 1..Len(masses_window) :
        /\ val.p = raw[j]
        /\ val.m = masses_window[j]
        /\ \A r \in 1..Len(masses_window) :
              Abs(masses_window[j] - mass) <= Abs(masses_window[r] - mass)

PeakElseRaw(val, mass, masses_window, raw, smoothed, peaks) ==
    IF Len(peaks) > 0
    THEN IsClosestPeak(val, mass, masses_window, smoothed, peaks)
    ELSE IsNearestRaw(val, mass, masses_window, raw)

SmoothedThenPeaks(val, mass, masses_window, raw, smoothed) ==
    PeakElseRaw(val, mass, masses_window, raw, smoothed, FindPeaks(smoothed))

\* C12: a peak-window query on a non-empty window returns, when find_peaks
\* detects peaks on the smoothed window, the smoothed pressure and grid mass
\* of the detected peak closest to the target mass, and otherwise the raw
\* pressure and grid mass at the window index nearest the target mass; the
\* returned mass lies in [mass - window / 2, mass + window / 2].
C12_PeakElseNearestRaw ==
    (/\ query.op = "get_peakfound_pressure"
     /\ query.ret.exc = "none"
     /\ WindowHasPoint(query.mass, query.window))
    => /\ ~query.ret.val.none
       /\ SmoothedThenPeaks(query.ret.val, query.mass,
                            Take(masses, WindowIndices),
                            Take(interpolated_data.rows[query.scan_index],
                                 WindowIndices),
                            GaussianFilter(
                                Take(interpolated_data.rows[query.scan_index],
                                     WindowIndices)))
       /\ 2 * query.ret.val.m >= 2 * query.mass - query.window
       /\ 2 * query.ret.val.m <= 2 * query.mass + query.window

\* the grid masses of the peaks detected on the smoothed window of the last
\* query
DetectedPeakMasses ==
    Take(Take(masses, WindowIndices),
         FindPeaks(GaussianFilter(Take(interpolated_data.rows[query.scan_index],
                                       WindowIndices))))

\* two detected peaks, the second one closer to the target mass and returned
C12_Witness ==
    /\ query.op = "get_peakfound_pressure"
    /\ query.ret.exc = "none"
    /\ query.ret.val.peak
    /\ Len(DetectedPeakMasses) = 2
    /\ query.ret.val.m = DetectedPeakMasses[2]
    /\ Abs(DetectedPeakMasses[2] - query.mass) < Abs(DetectedPeakMasses[1] - query.mass)

-----------------------------------------------------------------------------
(* Gap compression: claim C13 *)

\* the difference of the times of samples i - 1 and i in series ts
Step(ts, i) == ts[i] - ts[i - 1]

-----------------------------------------------------------------------------
(* Acquisition: claim C15 *)

\* the flag is true once test() has started, as long as no except clause has
\* run, and false from then on; files_written counts the completed writes;
\* and test() ends only on a false loop condition, on a disconnected RGA
\* found by the except clause, or on an exception outside the loop
FlagAndCount ==
    /\ (task.pc # "start" /\ task.failed = 0) => task.task_passed
    /\ task.failed > 0 => ~task.task_passed
    /\ task.files_written = task.written
    /\ task.pc = "ended" => task.ended_by \in {"stopped", "disconnected", "raised"}
    /\ task.ended_by = "disconnected" => (task.failed > 0 /\ ~task.connected)

\* the flag becomes true in the first step of test() only, and the except
\* clause hands control back to the loop condition exactly when the RGA is
\* connected and ends the loop otherwise
FlagAndLoopSteps ==
    /\ (~task.task_passed /\ task'.task_passed) => task.pc = "start"
    /\ (task.pc # "start" /\ ~task.task_passed) => ~task'.task_passed
    /\ task.pc = "except" =>
          /\ ~task'.task_passed
          /\ task'.files_written = task.files_written
          /\ IF task'.connected
             THEN task'.pc = "while" /\ task'.ended_by = "none"
             ELSE task'.pc = "ended" /\ task'.ended_by = "disconnected"
    /\ (task.pc = "while" /\ task'.pc = "ended") => task'.ended_by = "stopped"

\* C15: in IsotopeAnalysis.test the task-passed flag is set true once, at
\* the start; after an iteration raised and its except clause ran the flag
\* is false and never becomes true again; after a failed iteration control
\* is back at the loop condition unless the RGA is found disconnected, in
\* which case the loop ends; and files_written equals the number of
\* iterations whose file write completed.
C15_FlagLoopAndCount == [](FlagAndCount) /\ [][FlagAndLoopSteps]_vars

\* a failed iteration with the RGA connected, a written file, and a failed
\* iteration that found the RGA disconnected and ended the loop
C15_Witness ==
    /\ task.pc = "ended"
    /\ task.ended_by = "disconnected"
    /\ task.failed = 2
    /\ task.iterations = 3
    /\ task.files_written = 1
    /\ ~task.task_passed

====
